---------------------------- MODULE Spec2Model ----------------------------
(***************************************************************************)
(* Model of slidechain/submit.go: the submitter's ServeHTTP handler and    *)
(* the time.AfterFunc callback it schedules.                               *)
(*                                                                         *)
(* The handler names two different builder references and two different    *)
(* mutexes: the fields s.bb / s.bbmu of the submitter (lines 22, 30, 60,   *)
(* 61, 63, 64) and the unqualified identifiers bb / bbmu (lines 76, 83,    *)
(* 84, 86, 100, 104), which Go resolves to package-level variables.  They  *)
(* are modelled as the distinct variables s_bb, s_bbmu, bb and bbmu.       *)
(* The package-level bb is declared outside submit.go, so the value it     *)
(* holds when the first request arrives is not fixed by this file: Init    *)
(* draws it from nil and a builder that has not been started.              *)
(*                                                                         *)
(* Every request r carries its own transaction, identified by r.           *)
(***************************************************************************)
EXTENDS Integers, Sequences, FiniteSets, TLC

\* Number of HTTP requests the model sends (a bound of the model).
MaxReq == 3

\* Go's nil pointer.
NIL == 0

Reqs == 1..MaxReq

\* The builder the package-level bb may point to before the first request.
\* The builder allocated by request r at line 64 is identified by r.
GlobalBuilder == MaxReq + 1

Builders == Reqs \cup {GlobalBuilder}

VARIABLES
    pc,         \* pc[r]: position of request r's handler goroutine
    outcome,    \* outcome[r]: how the handler of r ended ("none" while running)
    s_bbmu,     \* s.bbmu: NIL or the request holding it
    s_bb,       \* s.bb: NIL or a builder
    bbmu,       \* package-level bbmu: NIL or the timer (by arming request) holding it
    bb,         \* package-level bb: NIL or a builder
    builder,    \* heap: builder[b] = state of BlockBuilder object b
    chainInit,  \* chain.State().Header # nil
    timer,      \* timer[r]: the AfterFunc callback armed by request r: its
                \* position, and as history its session, block and failure
    sess,       \* history: one record per successful bb.Start, with the
                \* builder, the request and the chain state it started from
    admitted,   \* history: <<tx, session>> in the order of 204 responses
    sealed,     \* history: one record per successful bb.Build
    commitLog,  \* history: one record per chain.CommitAppliedBlock call
    published,  \* blocks written to s.w, in order
    halted      \* "no", "fatal" (log.Fatal) or "panic" (panic outside a handler)

vars == <<pc, outcome, s_bbmu, s_bb, bbmu, bb, builder, chainInit, timer,
          sess, admitted, sealed, commitLog, published, halted>>

histVars == <<sess, admitted, sealed, commitLog, published>>

-----------------------------------------------------------------------------
\* A freshly allocated BlockBuilder (protocol.NewBlockBuilder, line 64).
NewBlockBuilder == [started |-> FALSE, built |-> FALSE, txs |-> <<>>, sess |-> 0]

\* A timer that has not been armed.
NoTimer == [pc |-> "none", sess |-> 0, block |-> 0, err |-> "none"]

Init ==
    /\ pc = [r \in Reqs |-> "new"]
    /\ outcome = [r \in Reqs |-> "none"]
    /\ s_bbmu = NIL
    /\ s_bb = NIL
    /\ bbmu = NIL
    /\ bb \in {NIL, GlobalBuilder}
    /\ builder = [b \in Builders |-> NewBlockBuilder]
    /\ chainInit \in BOOLEAN
    /\ timer = [r \in Reqs |-> NoTimer]
    /\ sess = <<>>
    /\ admitted = <<>>
    /\ sealed = <<>>
    /\ commitLog = <<>>
    /\ published = <<>>
    /\ halted = "no"

\* HTTP status written for each way the handler can end (lines 43, 50, 56,
\* 71, 78, 106, 110).  A panicking handler writes no status: net/http
\* recovers the panic and drops the connection.
Status(o) ==
    CASE o = "ok" -> 204
      [] o \in {"unmarshal", "newtx", "addtx"} -> 400
      [] o \in {"readbody", "init", "start"} -> 500
      [] OTHER -> 0

\* The handler of r returns with outcome o while holding s.bbmu: the
\* deferred Unlock of line 61 runs.
Return(r, o) ==
    /\ pc' = [pc EXCEPT ![r] = "done"]
    /\ outcome' = [outcome EXCEPT ![r] = o]
    /\ s_bbmu' = NIL

Running == halted = "no"

-----------------------------------------------------------------------------
\* Mutant: the return after the error response of lines 50 and 56 is
\* missing, so the handler goes on to the lock.
PcAfterDecodeNoReturn(o) == IF o = "readbody" THEN "done" ELSE "lock"

\* Lines 42-58: the handler returns on a read or decode error and goes on
\* to the lock otherwise.
PcAfterDecode(o) == IF o = "ok" THEN "lock" ELSE "done"

\* Lines 39-58: read and decode the request; no lock is held.
Receive(r) ==
    /\ Running
    /\ pc[r] = "new"
    /\ \E o \in {"readbody", "unmarshal", "newtx", "ok"} :
          /\ pc' = [pc EXCEPT ![r] = PcAfterDecode(o)]
          /\ outcome' = [outcome EXCEPT ![r] = IF o = "ok" THEN @ ELSE o]
    /\ UNCHANGED <<s_bbmu, s_bb, bbmu, bb, builder, chainInit, timer, halted>>
    /\ UNCHANGED histVars

\* Line 60: s.bbmu.Lock().
Lock(r) ==
    /\ Running
    /\ pc[r] = "lock"
    /\ s_bbmu = NIL
    /\ s_bbmu' = r
    /\ pc' = [pc EXCEPT ![r] = "check"]
    /\ UNCHANGED <<outcome, s_bb, bbmu, bb, builder, chainInit, timer, halted>>
    /\ UNCHANGED histVars

\* Mutant: the test of line 63 always takes the open-a-batch branch.
PcAfterCheckAlways(sbb) == "init"

\* Mutant: the timer of line 82 is armed outside the s.bb == nil block, on
\* every request.
PcAfterCheckRearm(sbb) == IF sbb = NIL THEN "init" ELSE "arm"

\* Line 63: where the handler goes after testing s.bb.
PcAfterCheck(sbb) == IF sbb = NIL THEN "init" ELSE "add"

\* Lines 63-65: test s.bb; when nil, store a new builder in s.bb.
CheckOpen(r) ==
    /\ Running
    /\ pc[r] = "check"
    /\ pc' = [pc EXCEPT ![r] = PcAfterCheck(s_bb)]
    /\ IF PcAfterCheck(s_bb) = "add"
       THEN UNCHANGED <<s_bb, builder>>
       ELSE /\ s_bb' = r
            /\ builder' = [builder EXCEPT ![r] = NewBlockBuilder]
    /\ UNCHANGED <<outcome, s_bbmu, bbmu, bb, chainInit, timer, halted>>
    /\ UNCHANGED histVars

\* Lines 67-74: apply the initial block header to an empty chain state.
InitState(r) ==
    /\ Running
    /\ pc[r] = "init"
    /\ IF chainInit
       THEN /\ pc' = [pc EXCEPT ![r] = "start"]
            /\ UNCHANGED <<outcome, s_bbmu, chainInit>>
       ELSE \E ok \in BOOLEAN :
               IF ok
               THEN /\ chainInit' = TRUE
                    /\ pc' = [pc EXCEPT ![r] = "start"]
                    /\ UNCHANGED <<outcome, s_bbmu>>
               ELSE /\ Return(r, "init")
                    /\ UNCHANGED chainInit
    /\ UNCHANGED <<s_bb, bbmu, bb, builder, timer, halted>>
    /\ UNCHANGED histVars

\* The session a timer armed by r belongs to: the one r opened, else the
\* one the package-level builder is in (history only).
SessionOf(r) ==
    IF \E i \in 1..Len(sess) : sess[i].opener = r
    THEN CHOOSE i \in 1..Len(sess) : sess[i].opener = r
    ELSE IF bb = NIL THEN 0 ELSE builder[bb].sess

\* The number of blocks committed to the chain: the snapshot that
\* chain.State() returns at line 76 is the one after that many commits.
ChainHeight == Cardinality({j \in 1..Len(commitLog) : commitLog[j].ok})

\* Lines 76-80: bb.Start on the package-level builder.  A nil bb makes the
\* method dereference nil: the handler panics and net/http recovers it.
Start(r) ==
    /\ Running
    /\ pc[r] = "start"
    /\ IF bb = NIL
       THEN /\ Return(r, "panic")
            /\ UNCHANGED <<builder, sess>>
       ELSE \E ok \in BOOLEAN :
               IF ok
               THEN /\ builder' = [builder EXCEPT ![bb] =
                           [started |-> TRUE, built |-> FALSE, txs |-> <<>>,
                            sess |-> Len(sess) + 1]]
                    /\ sess' = Append(sess, [b |-> bb, opener |-> r,
                                             base |-> ChainHeight])
                    /\ pc' = [pc EXCEPT ![r] = "arm"]
                    /\ UNCHANGED <<outcome, s_bbmu>>
               ELSE /\ Return(r, "start")
                    /\ UNCHANGED <<builder, sess>>
    /\ UNCHANGED <<s_bb, bbmu, bb, chainInit, timer, halted>>
    /\ UNCHANGED <<admitted, sealed, commitLog, published>>

\* Lines 81-82: time.AfterFunc(blockInterval, ...) arms a one-shot timer.
Arm(r) ==
    /\ Running
    /\ pc[r] = "arm"
    /\ timer' = [timer EXCEPT ![r] =
                    [pc |-> "armed", sess |-> SessionOf(r), block |-> 0,
                     err |-> "none"]]
    /\ pc' = [pc EXCEPT ![r] = "add"]
    /\ UNCHANGED <<outcome, s_bbmu, s_bb, bbmu, bb, builder, chainInit, halted>>
    /\ UNCHANGED histVars

\* Mutant: a rejected transaction makes the handler drop the builder.
BbAfterAddTxDrop(ref, err) == IF err THEN NIL ELSE ref

\* Lines 104-108: what the package-level bb refers to after bb.AddTx
\* returned (err) or succeeded: the handler leaves it alone either way.
BbAfterAddTx(ref, err) == ref

\* Mutant: the return of line 107 is missing, so the handler falls through
\* to the 204 of line 110.
OutcomeAfterAddTxNoReturn(err) == "ok"

\* Lines 105-110: the response after bb.AddTx returned.
OutcomeAfterAddTx(err) == IF err THEN "addtx" ELSE "ok"

\* Lines 104-110: bb.AddTx on the package-level builder, then the response.
\* AddTx on a nil bb panics; on a builder that was never started it has no
\* snapshot to apply the transaction to and cannot succeed.
AddTx(r) ==
    /\ Running
    /\ pc[r] = "add"
    /\ IF bb = NIL
       THEN /\ Return(r, "panic")
            /\ UNCHANGED <<bb, builder, admitted>>
       ELSE IF ~builder[bb].started
       THEN /\ \E o \in {"panic", OutcomeAfterAddTx(TRUE)} : Return(r, o)
            /\ bb' = BbAfterAddTx(bb, TRUE)
            /\ UNCHANGED <<builder, admitted>>
       ELSE \E ok \in BOOLEAN :
               /\ bb' = BbAfterAddTx(bb, ~ok)
               /\ IF ok
                  THEN /\ builder' = [builder EXCEPT ![bb].txs = Append(@, r)]
                       /\ admitted' = Append(admitted, <<r, builder[bb].sess>>)
                       /\ Return(r, OutcomeAfterAddTx(FALSE))
                  ELSE /\ Return(r, OutcomeAfterAddTx(TRUE))
                       /\ UNCHANGED <<builder, admitted>>
    /\ UNCHANGED <<s_bb, bbmu, chainInit, timer, halted>>
    /\ UNCHANGED <<sess, sealed, commitLog, published>>

-----------------------------------------------------------------------------
\* The callback of time.AfterFunc, lines 82-101, armed by request t.

\* Line 83: bbmu.Lock() on the package-level mutex.
TimerLock(t) ==
    /\ Running
    /\ timer[t].pc = "armed"
    /\ bbmu = NIL
    /\ bbmu' = t
    /\ timer' = [timer EXCEPT ![t].pc = "build"]
    /\ UNCHANGED <<pc, outcome, s_bbmu, s_bb, bb, builder, chainInit, halted>>
    /\ UNCHANGED histVars

\* Mutant: the error of bb.Build is not fatal.
PcAfterBuildContinue(err) == "commit"

\* Lines 87-89: log.Fatal when bb.Build fails.
PcAfterBuild(err) == IF err THEN "fatal" ELSE "commit"

\* Lines 86-90: bb.Build() on the package-level builder.  The callback runs
\* on its own goroutine: a nil dereference there ends the process.
TimerBuild(t) ==
    /\ Running
    /\ timer[t].pc = "build"
    /\ IF bb = NIL
       THEN /\ halted' = "panic"
            /\ UNCHANGED <<timer, builder, sealed>>
       ELSE \E ok \in {TRUE, FALSE} :
               /\ ok => builder[bb].started
               /\ IF ok
                  THEN /\ sealed' = Append(sealed,
                              [sess |-> builder[bb].sess,
                               txs |-> builder[bb].txs, timer |-> t])
                       /\ builder' = [builder EXCEPT ![bb].built = TRUE]
                       /\ timer' = [timer EXCEPT ![t].block = Len(sealed) + 1,
                                                 ![t].pc = PcAfterBuild(FALSE)]
                       /\ UNCHANGED halted
                  ELSE /\ timer' = [timer EXCEPT ![t].pc = PcAfterBuild(TRUE),
                                                 ![t].err = "build"]
                       /\ halted' = IF PcAfterBuild(TRUE) = "fatal"
                                    THEN "fatal" ELSE halted
                       /\ UNCHANGED <<builder, sealed>>
    /\ UNCHANGED <<pc, outcome, s_bbmu, s_bb, bbmu, bb, chainInit>>
    /\ UNCHANGED <<sess, admitted, commitLog, published>>

\* Mutant: a committed block is not written to s.w.
PcAfterCommitSkipWrite(err) == IF err THEN "fatal" ELSE "clear"

\* Mutant: the error of the commit is ignored.
PcAfterCommitIgnore(err) == "write"

\* Lines 92-94: log.Fatal when the commit fails.
PcAfterCommit(err) == IF err THEN "fatal" ELSE "write"

\* Lines 91-94: chain.CommitAppliedBlock(ctx, b, newSnapshot), with the
\* context of the request that armed the timer (line 39).
TimerCommit(t) ==
    /\ Running
    /\ timer[t].pc = "commit"
    /\ \E ok \in BOOLEAN :
          /\ commitLog' = Append(commitLog,
                [block |-> timer[t].block, ok |-> ok,
                 ctxDone |-> outcome[t] # "none"])
          /\ timer' = [timer EXCEPT ![t].pc = PcAfterCommit(~ok),
                                    ![t].err = IF ok THEN @ ELSE "commit"]
          /\ halted' = IF PcAfterCommit(~ok) = "fatal" THEN "fatal" ELSE halted
    /\ UNCHANGED <<pc, outcome, s_bbmu, s_bb, bbmu, bb, builder, chainInit>>
    /\ UNCHANGED <<sess, admitted, sealed, published>>

\* Lines 96-98: s.w.Write(b).
TimerWrite(t) ==
    /\ Running
    /\ timer[t].pc = "write"
    /\ published' = Append(published, timer[t].block)
    /\ timer' = [timer EXCEPT ![t].pc = "clear"]
    /\ UNCHANGED <<pc, outcome, s_bbmu, s_bb, bbmu, bb, builder, chainInit, halted>>
    /\ UNCHANGED <<sess, admitted, sealed, commitLog>>

\* Lines 100 and 84: bb = nil on the package-level variable, then the
\* deferred bbmu.Unlock().
TimerClear(t) ==
    /\ Running
    /\ timer[t].pc = "clear"
    /\ bb' = NIL
    /\ bbmu' = NIL
    /\ timer' = [timer EXCEPT ![t].pc = "done"]
    /\ UNCHANGED <<pc, outcome, s_bbmu, s_bb, builder, chainInit, halted>>
    /\ UNCHANGED histVars

-----------------------------------------------------------------------------
Next ==
    \E r \in Reqs :
        \/ Receive(r)
        \/ Lock(r)
        \/ CheckOpen(r)
        \/ InitState(r)
        \/ Start(r)
        \/ Arm(r)
        \/ AddTx(r)
        \/ TimerLock(r)
        \/ TimerBuild(r)
        \/ TimerCommit(r)
        \/ TimerWrite(r)
        \/ TimerClear(r)

Spec == Init /\ [][Next]_vars

\* The Go runtime runs every goroutine and fires every armed timer.
TimerStep(t) ==
    TimerLock(t) \/ TimerBuild(t) \/ TimerCommit(t) \/ TimerWrite(t) \/ TimerClear(t)

FairSpec == Spec /\ \A t \in Reqs : WF_vars(TimerStep(t))

-----------------------------------------------------------------------------
TypeOK ==
    /\ pc \in [Reqs -> {"new", "lock", "check", "init", "start", "arm", "add", "done"}]
    /\ s_bbmu \in Reqs \cup {NIL}
    /\ bbmu \in Reqs \cup {NIL}
    /\ s_bb \in Builders \cup {NIL}
    /\ bb \in Builders \cup {NIL}
    /\ halted \in {"no", "fatal", "panic"}

-----------------------------------------------------------------------------
\* Helpers for the properties.

\* The transactions of the 204 responses for session i, in response order.
RECURSIVE AdmittedTo(_, _)
AdmittedTo(i, n) ==
    IF n = 0 THEN <<>>
    ELSE IF admitted[n][2] = i
         THEN Append(AdmittedTo(i, n - 1), admitted[n][1])
         ELSE AdmittedTo(i, n - 1)

InSeq(x, q) == \E k \in 1..Len(q) : q[k] = x

SealsOf(i) == {j \in 1..Len(sealed) : sealed[j].sess = i}

\* Sessions that were started and have not been sealed.
OpenSessions == {i \in 1..Len(sess) : SealsOf(i) = {}}

TimersOf(i) == {t \in Reqs : timer[t].pc # "none" /\ timer[t].sess = i}

CommitsOf(i) ==
    {j \in 1..Len(commitLog) :
        commitLog[j].block \in 1..Len(sealed) /\ sealed[commitLog[j].block].sess = i}

WritesOf(i) ==
    {j \in 1..Len(published) :
        published[j] \in 1..Len(sealed) /\ sealed[published[j]].sess = i}

-----------------------------------------------------------------------------
\* C1: every transaction whose Admit returned success is in exactly one
\* sealed batch, once, and a sealed batch holds its transactions in the
\* order their Admit calls succeeded.  Stated on the sealed batches: each
\* session is sealed at most once and the batch sealed for it is exactly
\* the sequence of successful admissions to it.
C1_AdmittedSealedInOrder ==
    \A j \in 1..Len(sealed) :
        /\ sealed[j].txs = AdmittedTo(sealed[j].sess, Len(admitted))
        /\ SealsOf(sealed[j].sess) = {j}

\* C2: in every reachable state at most one Batch Builder session is open
\* (started and not yet sealed).
C2_AtMostOneOpenSession == Cardinality(OpenSessions) <= 1

\* C2 witness: a session is open, its timer is armed, and a request that
\* did not open it is inside the handler's critical section.
C2_Witness ==
    /\ Cardinality(OpenSessions) = 1
    /\ \E r \in Reqs, t \in Reqs :
          /\ r # t
          /\ pc[r] = "add"
          /\ timer[t].pc = "armed"
          /\ Len(admitted) >= 1

\* C3 (state part): a timer is armed only by the request that opened a
\* batch, for that batch; a batch has one timer once its opener is past
\* line 82 and never more than one; the timer's callback seals, commits
\* and publishes at most once, and exactly once when it has run to its end.
C3_OneTimerOneSequence ==
    /\ \A t \in Reqs :
          timer[t].pc # "none" =>
             /\ timer[t].sess \in 1..Len(sess)
             /\ sess[timer[t].sess].opener = t
    /\ \A i \in 1..Len(sess) :
          /\ Cardinality(TimersOf(i)) <= 1
          /\ pc[sess[i].opener] # "arm" => Cardinality(TimersOf(i)) = 1
          /\ Cardinality(SealsOf(i)) <= 1
          /\ Cardinality(CommitsOf(i)) <= 1
          /\ Cardinality(WritesOf(i)) <= 1
          /\ (\E t \in TimersOf(i) : timer[t].pc = "done") =>
                /\ Cardinality(SealsOf(i)) = 1
                /\ Cardinality(CommitsOf(i)) = 1
                /\ Cardinality(WritesOf(i)) = 1

\* C3: for each batch that is opened its finalize timer fires exactly once
\* and triggers exactly one seal+commit+publish sequence, also when Admit
\* calls race the deadline; the timer is armed only at batch-open time and
\* never re-armed.  Every armed timer runs its callback to the end unless
\* the process halts.
C3_TimerFiresExactlyOnce ==
    /\ []C3_OneTimerOneSequence
    /\ \A t \in Reqs :
          (timer[t].pc = "armed") ~> (timer[t].pc = "done" \/ halted # "no")

\* C3 witness: a timer has run to its end while two requests were admitted,
\* one of them after the callback had taken its lock.
C3_Witness ==
    \E t \in Reqs :
        /\ timer[t].pc = "done"
        /\ Len(admitted) >= 2
        /\ Len(published) = 1
        /\ Len(sealed[published[1]].txs) < Len(admitted)

\* C4: Admit and the timer-fire handler take the same exclusive lock, so
\* their critical sections never overlap.
C4_CriticalSectionsExclusive == ~(s_bbmu # NIL /\ bbmu # NIL)

\* C5: after a batch's timer handler completes the coordinator is back in
\* IDLE (the open-builder reference Admit tests is cleared), so the next
\* Admit opens a fresh batch: the step that ends the callback leaves s.bb
\* nil, and a request that takes the lock after a callback has ended is
\* never sent past the open-a-batch block.
C5_IdleAfterTimer ==
    [][ /\ (\E t \in Reqs : timer[t].pc = "clear" /\ timer'[t].pc = "done")
           => s_bb' = NIL
        /\ \A r \in Reqs :
              (/\ pc[r] = "check"
               /\ \E t \in Reqs : timer[t].pc = "done"
               /\ \A t \in Reqs : timer[t].pc \in {"none", "done"})
              => pc'[r] # "add" ]_vars

\* C6: a block is written to the Publication Channel only after the commit
\* of that same block has succeeded; a block whose commit failed is never
\* written.
C6_PublishOnlyAfterCommit ==
    /\ \A i \in 1..Len(published) :
          \E j \in 1..Len(commitLog) :
             commitLog[j].block = published[i] /\ commitLog[j].ok
    /\ \A j \in 1..Len(commitLog) :
          ~commitLog[j].ok => ~InSeq(commitLog[j].block, published)

\* C6 witness: a block holding a transaction was committed and written.
C6_Witness ==
    /\ Len(published) = 1
    /\ Len(commitLog) = 1
    /\ commitLog[1].ok
    /\ Len(sealed[published[1]].txs) >= 1

\* C7: when initialization fails during Admit in IDLE (the genesis header
\* cannot be applied or the builder cannot be started) the request is
\* rejected and the coordinator remains in IDLE: the step in which the
\* handler returns the failure leaves s.bb nil.
C7_InitFailureStaysIdle ==
    [][ \A r \in Reqs :
           (outcome[r] = "none" /\ outcome'[r] \in {"init", "start"})
           => s_bb' = NIL ]_vars

\* Number of sealed batches that hold transaction x.
InSealed(x) == Cardinality({j \in 1..Len(sealed) : InSeq(x, sealed[j].txs)})

\* Number of open sessions whose builder holds transaction x.
InPending(x) ==
    Cardinality({i \in OpenSessions :
                    /\ builder[sess[i].b].sess = i
                    /\ InSeq(x, builder[sess[i].b].txs)})

\* C8: a transaction racing the batch deadline is serialized with the
\* seal: when its Admit succeeded it is in the batch being closed or in the
\* next, open batch; never in both, never in neither, never twice.
C8_RacingTxInExactlyOneBatch ==
    \A r \in Reqs : outcome[r] = "ok" => InSealed(r) + InPending(r) = 1

\* C9: when Add rejects a transaction the open batch stays open and
\* unchanged: the rejecting step changes neither the builder references, nor
\* the builder's transactions, nor any timer, nor what was sealed, and the
\* rejected transaction is in no builder and in no sealed batch.
C9_RejectLeavesBatchUnchanged ==
    /\ [][ \A r \in Reqs :
              (pc[r] = "add" /\ outcome'[r] = "addtx")
              => UNCHANGED <<bb, s_bb, builder, timer, sess, sealed, admitted>> ]_vars
    /\ [](\A r \in Reqs :
             outcome[r] = "addtx" =>
                /\ InSealed(r) = 0
                /\ \A b \in Builders : ~InSeq(r, builder[b].txs))

\* C9 witness: a transaction was rejected while the batch was open, a later
\* one was admitted to the same batch, and the batch was sealed with the
\* admitted one alone.
C9_Witness ==
    \E r \in Reqs, q \in Reqs :
        /\ outcome[r] = "addtx"
        /\ outcome[q] = "ok"
        /\ Len(sess) = 1
        /\ sess[1].opener = r
        /\ Len(sealed) = 1
        /\ sealed[1].txs = <<q>>

\* A seal or a commit has failed in some timer callback.
SealOrCommitFailed == \E t \in Reqs : timer[t].err # "none"

\* C10: when sealing (Build) or the commit fails in the timer handler the
\* process halts: from then on no block is published, no further commit is
\* performed and no commit is retried.
C10_FailureHalts ==
    /\ [](SealOrCommitFailed => halted = "fatal")
    /\ [][SealOrCommitFailed => UNCHANGED <<published, commitLog>>]_vars

\* C10 witness: a commit failed after transactions were admitted, the
\* process is halted and nothing was published.
C10_Witness ==
    \E t \in Reqs :
        /\ timer[t].err = "commit"
        /\ halted = "fatal"
        /\ Len(admitted) >= 1
        /\ published = <<>>

\* The blocks of the successful commits among the first n, in commit order.
RECURSIVE CommittedOk(_)
CommittedOk(n) ==
    IF n = 0 THEN <<>>
    ELSE IF commitLog[n].ok
         THEN Append(CommittedOk(n - 1), commitLog[n].block)
         ELSE CommittedOk(n - 1)

\* C11 (state part): the blocks written are a prefix of the successfully
\* committed blocks, in commit order; the only committed block that may be
\* missing is the last one, while its callback stands right before the Write.
C11_PublishedIsCommittedPrefix ==
    LET c == CommittedOk(Len(commitLog)) IN
    /\ Len(published) <= Len(c)
    /\ published = SubSeq(c, 1, Len(published))
    /\ Len(c) - Len(published) <= 1
    /\ Len(c) > Len(published) =>
          \E t \in Reqs : timer[t].pc = "write" /\ timer[t].block = c[Len(c)]

\* C11: the sequence of blocks written to the Publication Channel equals
\* the sequence of successfully committed blocks: each successful commit is
\* followed by exactly one Write of that block, in commit order.
C11_PublishedEqualsCommitted ==
    /\ []C11_PublishedIsCommittedPrefix
    /\ \A t \in Reqs :
          (timer[t].pc = "write") ~>
             (/\ timer[t].pc \in {"clear", "done"}
              /\ published = CommittedOk(Len(commitLog)))

\* C11 witness: a block holding a transaction was committed and then
\* written, and the callback has ended.
C11_Witness ==
    /\ Len(published) = 1
    /\ published = CommittedOk(Len(commitLog))
    /\ Len(sealed[published[1]].txs) >= 1
    /\ \E t \in Reqs : timer[t].pc = "done"

\* C12: Chain State advances monotonically: each sealed batch is committed
\* at most once, commits happen in the order their batches were opened, and
\* every batch is opened against the Chain State of the most recent
\* successful commit: when batch i is opened the i-1 batches before it have
\* all been committed, so no pending commit will supersede its base state.
C12_ChainStateMonotonic ==
    /\ \A j, k \in 1..Len(commitLog) :
          /\ commitLog[j].block \in 1..Len(sealed)
          /\ j < k => sealed[commitLog[j].block].sess
                         < sealed[commitLog[k].block].sess
          /\ commitLog[j].block = commitLog[k].block => j = k
    /\ \A i \in 1..Len(sess) : sess[i].base = i - 1

\* C12 witness: a batch that was opened on the initial chain state has been
\* sealed with a transaction and committed.
C12_Witness ==
    /\ Len(sess) = 1
    /\ sess[1].base = 0
    /\ Len(commitLog) = 1
    /\ commitLog[1].ok
    /\ sealed[commitLog[1].block].sess = 1
    /\ Len(sealed[commitLog[1].block].txs) >= 1

\* The payload of request r failed to decode (lines 48-58).
DecodeFailed(r) == outcome[r] \in {"unmarshal", "newtx"}

\* C13: a request whose payload fails to decode returns a client error and
\* leaves coordinator state unchanged: the step that rejects it changes
\* neither builder reference, no builder, no timer, no lock and no log of
\* admitted, sealed, committed or published blocks; the handler ends there,
\* so it never takes the lock and its transaction is in no builder.
C13_DecodeFailureTouchesNothing ==
    /\ [][ \A r \in Reqs :
              (outcome[r] = "none" /\ outcome'[r] \in {"unmarshal", "newtx"})
              => /\ Status(outcome'[r]) = 400
                 /\ pc'[r] = "done"
                 /\ UNCHANGED <<s_bb, bb, s_bbmu, bbmu, builder, timer,
                                chainInit, halted, histVars>> ]_vars
    /\ [](\A r \in Reqs :
             DecodeFailed(r) =>
                /\ pc[r] = "done"
                /\ s_bbmu # r
                /\ \A b \in Builders : ~InSeq(r, builder[b].txs))

\* C13 witness: a malformed request was rejected while a batch with an
\* admitted transaction was open and its timer armed.
C13_Witness ==
    \E r \in Reqs, t \in Reqs :
        /\ DecodeFailed(r)
        /\ timer[t].pc = "armed"
        /\ Cardinality(OpenSessions) = 1
        /\ Len(admitted) >= 1

\* The transaction of request r was appended to a builder.
Appended(r) == \E b \in Builders : InSeq(r, builder[b].txs)

C15_SealedSessionIsFrozen ==
    /\ [](\A i \in 1..Len(sess) : Cardinality(SealsOf(i)) <= 1)
    /\ [][ \A b \in Builders :
              (builder[b].built /\ builder'[b].sess = builder[b].sess)
              => builder'[b].txs = builder[b].txs ]_vars

\* A timer callback that is armed or running.
TimerActive(t) == timer[t].pc \in {"armed", "build", "commit", "write", "clear"}

\* C16: the timer armed when a batch is opened is bound to that batch: what
\* it seals is the session the arming Admit opened, and the builder
\* reference it uses and clears is the one Admit tests to decide whether to
\* open a new batch.
C16_TimerBoundToTestedReference ==
    /\ \A j \in 1..Len(sealed) :
          /\ sealed[j].sess \in 1..Len(sess)
          /\ sess[sealed[j].sess].opener = sealed[j].timer
    /\ \A t \in Reqs : TimerActive(t) => bb = s_bb

\* Number of written blocks that hold transaction x.
InPublished(x) ==
    Cardinality({j \in 1..Len(published) :
                    /\ published[j] \in 1..Len(sealed)
                    /\ InSeq(x, sealed[published[j]].txs)})

\* C17: every transaction whose Admit returned success is eventually in a
\* block written to the Publication Channel, or the process halts with a
\* seal/commit failure.  Stated on the states in which nothing is left to
\* fire: with no timer armed or running and the process not halted, every
\* admitted transaction is in a written block.
C17_AdmittedIsPublished ==
    (/\ halted = "no"
     /\ \A t \in Reqs : ~TimerActive(t))
    => \A r \in Reqs : outcome[r] = "ok" => InPublished(r) = 1

\* C18: when a batch's timer fires with zero admitted transactions the
\* handler still seals, commits and publishes the empty batch and returns
\* the coordinator to IDLE: the step that ends the callback of an empty
\* batch finds the empty block committed and written and leaves s.bb nil.
C18_EmptyBatchSealedThenIdle ==
    [][ \A t \in Reqs :
           (/\ timer[t].pc = "clear"
            /\ timer'[t].pc = "done"
            /\ timer[t].block \in 1..Len(sealed)
            /\ sealed[timer[t].block].txs = <<>>)
           => /\ InSeq(timer[t].block, CommittedOk(Len(commitLog)))
              /\ InSeq(timer[t].block, published)
              /\ s_bb' = NIL ]_vars

\* C19: whenever no handler holds the lock and the open-builder reference
\* is non-nil, that builder has been started and exactly one finalize timer
\* is pending or running.
C19_NonNilBuilderHasTimer ==
    (s_bbmu = NIL /\ s_bb # NIL)
    => /\ builder[s_bb].started
       /\ Cardinality({t \in Reqs : TimerActive(t)}) = 1

\* C20: the commit of a batch's timer handler is never invoked with the
\* context of a request whose handler has already returned.
C20_CommitContextLive ==
    \A j \in 1..Len(commitLog) : ~commitLog[j].ctxDone

=============================================================================
